---- MODULE Spec2Model ----
(***************************************************************************)
(* The c25519 library with the Wei25519 / ECDSA additions: the isomorphism *)
(* layer (morph25519.c), the Montgomery ladder (c25519.c) and ECDSA        *)
(* (ecdsa.c), as state machines over the calls a client makes.             *)
(*                                                                         *)
(* Scaling.  TLC's integers are 32 bits wide, so the field is not          *)
(* GF(2^255 - 19) but GF(P) for the small prime P below, and every curve   *)
(* constant is the source's formula evaluated in GF(P).  P is chosen so    *)
(* that the scaled curve has the shape of Curve25519:                      *)
(*   P = 5 (mod 8), so sqrt is the (P+3)/8 power with the sqrt(-1) twist;  *)
(*   A^2 - 4 is a non-square and -(A+2) a square, as for A = 486662;       *)
(*   the group has 8*n points with n prime, as 8 * (2^252 + ...);          *)
(*   x = 9 is the Montgomery base of order n, Edwards base y = 4/5;        *)
(*   the Weierstrass b is a square (as it is modulo 2^255 - 19), so the    *)
(*   curve has points with wx = 0, i.e. mx = -delta.                       *)
(* Widths are scaled with the group: a scalar, digest or nonce is a        *)
(* little-endian array of FPRIME_SIZE bytes of ByteBits bits, ScalarBits   *)
(* bits in all, with 2^(ScalarBits-1) < 8n < 2^ScalarBits < 16n as         *)
(* 2^255 < 8n < 2^256 < 16n in the source.  The source's bit 255 is bit    *)
(* ScalarBits-1, its bit 254 is bit ScalarBits-2, and the loops over the   *)
(* bits of a scalar run from these.  The shift by 3 (the cofactor 8) and   *)
(* the clearing of the low 3 bits are not scaled.                          *)
(***************************************************************************)
EXTENDS Integers, Sequences, FiniteSets, TLC

(***************************************************************************)
(* Field layer F_p (f25519.h; the implementation is not part of the        *)
(* sources at hand, the operations are those of spec section 4.1).         *)
(* A field element is the number its 32 bytes hold; F25519_MAX is the      *)
(* largest such number, 2^256 - 1 = 2p + 37.                               *)
(***************************************************************************)
P == 277

F25519_MAX == 2 * P + 37

f25519_zero == 0

f25519_one == 1

FieldBytes == 0..F25519_MAX

Canon == 0..(P - 1)

\* reduce to the canonical residue in [0, p)
f25519_normalize(a) == a % P

\* The carry chain of add and sub folds an overflow of the storage back and
\* leaves whatever representative fits: the output may be non-canonical.
RECURSIVE Carry(_)
Carry(v) == IF v > F25519_MAX THEN Carry(v - P) ELSE v

f25519_add(a, b) == Carry(a + b)

f25519_sub(a, b) == Carry(a + 3 * P - b)

f25519_neg(a) == (P - (a % P)) % P

f25519_mul__distinct(a, b) == ((a % P) * (b % P)) % P

f25519_mul_c(a, k) == ((a % P) * (k % P)) % P

f25519_copy(a) == a

\* eq normalizes copies and compares
f25519_eq(a, b) == IF a % P = b % P THEN 1 ELSE 0

\* select(out, a, b, bit): out <- (bit == 0 ? a : b)
f25519_select(a, b, bit) == IF bit = 0 THEN a ELSE b

RECURSIVE FPow(_, _)
FPow(a, e) ==
  IF e = 0 THEN 1
  ELSE LET h == FPow(a, e \div 2)
           s == f25519_mul__distinct(h, h)
       IN  IF e % 2 = 1 THEN f25519_mul__distinct(s, a) ELSE s

\* inversion by Fermat's little theorem, exponent p - 2; inv(0) = 0
InvTable == [a \in Canon |-> FPow(a, P - 2)]

f25519_inv__distinct(a) == InvTable[a % P]

\* sqrt(-1) = 2^((p-1)/4)
SqrtMinusOne == FPow(2, (P - 1) \div 4)

\* candidate root a^((p+3)/8), times sqrt(-1) when its square is not a
f25519_sqrt(a) ==
  LET x == FPow(a, (P + 3) \div 8)
  IN  IF f25519_mul__distinct(x, x) = a % P THEN x
      ELSE f25519_mul__distinct(x, SqrtMinusOne)

(***************************************************************************)
(* Constants of morph25519.c, evaluated in GF(P).                          *)
(***************************************************************************)
\* the Montgomery coefficient A (486662 in GF(2^255 - 19))
f25519_A == 26

f25519_three == 3

\* delta = (p + A) / 3 mod p
f25519_delta == f25519_mul__distinct(f25519_A, f25519_inv__distinct(3))

\* c = sqrt(-(A + 2)) mod p, the odd root as in the source's constant (0xe7 ...)
f25519_c ==
  CHOOSE c \in Canon :
    /\ (c * c) % P = f25519_neg(f25519_A + 2)
    /\ c % 2 = 1

\* Edwards d = -121665/121666 = -((A - 2)/4) / ((A + 2)/4)
ed25519_d ==
  f25519_mul__distinct(f25519_neg(f25519_A - 2), f25519_inv__distinct(f25519_A + 2))

(***************************************************************************)
(* morph25519.c                                                            *)
(***************************************************************************)
morph25519_eparity(edwards_x) == edwards_x % 2

morph25519_e2m(ey) ==
  LET yplus0 == f25519_sub(f25519_one, ey)
      yminus == f25519_inv__distinct(yplus0)
      yplus  == f25519_add(f25519_one, ey)
      mx     == f25519_mul__distinct(yplus, yminus)
  IN  f25519_normalize(mx)

\* mx2ey with numerator and denominator exchanged
mx2ey_exchanged(mx) ==
  LET n0 == f25519_sub(mx, f25519_one)
      d  == f25519_inv__distinct(n0)
      n  == f25519_add(mx, f25519_one)
  IN  f25519_mul__distinct(n, d)

mx2ey(mx) ==
  LET n0 == f25519_add(mx, f25519_one)
      d  == f25519_inv__distinct(n0)
      n  == f25519_sub(mx, f25519_one)
  IN  f25519_mul__distinct(n, d)

\* returns <<x, ok>>
\* ey2ex without the verification of the root: always returns 1
ey2ex_unverified(y, parity) ==
  LET c0 == f25519_mul__distinct(y, y)
      b0 == f25519_mul__distinct(c0, ed25519_d)
      a0 == f25519_add(b0, f25519_one)
      b1 == f25519_inv__distinct(a0)
      a1 == f25519_sub(c0, f25519_one)
      c  == f25519_mul__distinct(a1, b1)
      a  == f25519_sqrt(c)
      b  == f25519_neg(a)
      bit == ((a % 2) + parity) % 2
  IN  <<f25519_select(a, b, bit), 1>>

\* returns <<x, ok>>
ey2ex(y, parity) ==
  LET c0 == f25519_mul__distinct(y, y)
      b0 == f25519_mul__distinct(c0, ed25519_d)
      a0 == f25519_add(b0, f25519_one)
      b1 == f25519_inv__distinct(a0)
      a1 == f25519_sub(c0, f25519_one)
      c  == f25519_mul__distinct(a1, b1)
      a  == f25519_sqrt(c)
      b  == f25519_neg(a)
      bit == ((a % 2) + parity) % 2
      x  == f25519_select(a, b, bit)
      a2 == f25519_normalize(f25519_mul__distinct(x, x))
  IN  <<x, f25519_eq(a2, f25519_normalize(c))>>

\* returns <<ex, ey, ok>>
morph25519_m2e(mx, parity) ==
  LET ey == mx2ey(mx)
      r  == ey2ex(ey, parity)
  IN  <<f25519_normalize(r[1]), f25519_normalize(ey), r[2]>>

morph25519_wx2mx(wx) ==
  LET tmp == f25519_normalize(f25519_sub(wx, f25519_delta))
  IN  f25519_select(tmp, f25519_zero, f25519_eq(wx, f25519_zero))

\* morph25519_mx2wx without the selection of zero
morph25519_mx2wx_unselected(mx) == f25519_normalize(f25519_add(mx, f25519_delta))

morph25519_mx2wx(mx) ==
  LET tmp == f25519_normalize(f25519_add(mx, f25519_delta))
  IN  f25519_select(tmp, f25519_zero, f25519_eq(mx, f25519_zero))

morph25519_m2w(mx, my) == <<morph25519_mx2wx(mx), f25519_copy(my)>>

morph25519_w2m(wx, wy) == <<morph25519_wx2mx(wx), f25519_copy(wy)>>

\* morph25519_e2w without the shift of wx by delta
morph25519_e2w_unshifted(ex, ey) ==
  LET nom  == f25519_add(f25519_one, ey)
      den  == f25519_sub(f25519_one, ey)
      inv  == f25519_inv__distinct(den)
      wx   == f25519_normalize(f25519_mul__distinct(nom, inv))
      mul2 == f25519_mul__distinct(f25519_c, nom)
      inv2 == f25519_mul__distinct(den, ex)
      den2 == f25519_inv__distinct(inv2)
      wy   == f25519_normalize(f25519_mul__distinct(mul2, den2))
  IN  <<wx, wy>>

morph25519_e2w(ex, ey) ==
  LET nom  == f25519_add(f25519_one, ey)
      den  == f25519_sub(f25519_one, ey)
      inv  == f25519_inv__distinct(den)
      mul  == f25519_mul__distinct(nom, inv)
      wx   == f25519_normalize(f25519_add(mul, f25519_delta))
      mul2 == f25519_mul__distinct(f25519_c, nom)
      inv2 == f25519_mul__distinct(den, ex)
      den2 == f25519_inv__distinct(inv2)
      wy   == f25519_normalize(f25519_mul__distinct(mul2, den2))
  IN  <<wx, wy>>

\* morph25519_e2w statement by statement on a memory m of named buffers,
\* the arguments wx, wy, ex, ey being the names of the buffers passed: a
\* load reads the buffer as it is when the statement runs.  Returns m as
\* the call leaves it.
morph25519_e2w_bufs(m, wx, wy, ex, ey) ==
  LET nom  == f25519_add(f25519_one, m[ey])
      den  == f25519_sub(f25519_one, m[ey])
      inv  == f25519_inv__distinct(den)
      mul  == f25519_mul__distinct(nom, inv)
      m1   == [m EXCEPT ![wx] = f25519_add(mul, f25519_delta)]
      m2   == [m1 EXCEPT ![wx] = f25519_normalize(m1[wx])]
      mul2 == f25519_mul__distinct(f25519_c, nom)
      inv2 == f25519_mul__distinct(den, m2[ex])
      den2 == f25519_inv__distinct(inv2)
      m3   == [m2 EXCEPT ![wy] = f25519_mul__distinct(mul2, den2)]
  IN  [m3 EXCEPT ![wy] = f25519_normalize(m3[wy])]

\* morph25519_w2e with ey's numerator and denominator exchanged
morph25519_w2e_exchanged(wx, wy) ==
  LET inv0 == f25519_mul__distinct(f25519_three, wx)
      pa   == f25519_sub(inv0, f25519_A)
      nom  == f25519_mul__distinct(f25519_c, pa)
      den  == f25519_mul__distinct(f25519_three, wy)
      inv  == f25519_inv__distinct(den)
      ex   == f25519_normalize(f25519_mul__distinct(nom, inv))
      nom2 == f25519_add(pa, f25519_three)
      den2 == f25519_sub(pa, f25519_three)
      inv2 == f25519_inv__distinct(den2)
      ey   == f25519_normalize(f25519_mul__distinct(nom2, inv2))
  IN  <<ex, ey>>

morph25519_w2e(wx, wy) ==
  LET inv0 == f25519_mul__distinct(f25519_three, wx)
      pa   == f25519_sub(inv0, f25519_A)
      nom  == f25519_mul__distinct(f25519_c, pa)
      den  == f25519_mul__distinct(f25519_three, wy)
      inv  == f25519_inv__distinct(den)
      ex   == f25519_normalize(f25519_mul__distinct(nom, inv))
      nom2 == f25519_sub(pa, f25519_three)
      den2 == f25519_add(pa, f25519_three)
      inv2 == f25519_inv__distinct(den2)
      ey   == f25519_normalize(f25519_mul__distinct(nom2, inv2))
  IN  <<ex, ey>>

(***************************************************************************)
(* Little-endian byte arrays: scalars, digests, nonces.                    *)
(***************************************************************************)
\* bits in a byte (8 in the source)
ByteBits == 3

\* bytes in a scalar (32 in the source)
FPRIME_SIZE == 3

ScalarBits == ByteBits * FPRIME_SIZE

\* the values of a byte are 0 .. ByteSize - 1
ByteSize == 2 ^ ByteBits

Idx == 1..FPRIME_SIZE

\* the array holding the number v < 2^ScalarBits
ToBytes(v) == [i \in Idx |-> (v \div (ByteSize ^ (i - 1))) % ByteSize]

\* bit i of e: (e[i >> 3] >> (i & 7)) & 1
BitOf(e, i) == (e[(i \div ByteBits) + 1] \div (2 ^ (i % ByteBits))) % 2

\* the number held by bytes lo..hi (each at its own weight), modulo m
RECURSIVE ModFrom(_, _, _, _)
ModFrom(x, lo, hi, m) ==
  IF lo = hi THEN ((x[lo] % m) * ((ByteSize ^ (lo - 1)) % m)) % m
  ELSE LET mid == (lo + hi) \div 2
       IN  (ModFrom(x, lo, mid, m) + ModFrom(x, mid + 1, hi, m)) % m

\* the little-endian number held by the array, modulo m
ModBytes(x, m) == IF x = x THEN ModFrom(x, 1, FPRIME_SIZE, m) ELSE 0

(***************************************************************************)
(* Edwards engine (ed25519.h; the implementation is not part of the        *)
(* sources at hand: extended coordinates <<X, Y, T, Z>> with x = X/Z,      *)
(* y = Y/Z, xy = T/Z, spec section 4.4).                                   *)
(***************************************************************************)
ed25519_neutral == <<0, 1, 0, 1>>

\* the base point: y = 4/5, x the even root
ed25519_base_y == f25519_mul__distinct(4, f25519_inv__distinct(5))

ed25519_base_x ==
  CHOOSE x \in Canon :
    /\ ((ed25519_base_y * ed25519_base_y) + (P - ((x * x) % P))) % P
         = (1 + (((ed25519_d * ((x * x) % P)) % P)
                  * ((ed25519_base_y * ed25519_base_y) % P))) % P
    /\ x % 2 = 0

ed25519_project(x, y) == <<x, y, f25519_mul__distinct(x, y), f25519_one>>

ed25519_base == ed25519_project(ed25519_base_x, ed25519_base_y)

\* <<x, y>>, normalized
ed25519_unproject(p) ==
  LET zi == f25519_inv__distinct(p[4])
  IN  <<f25519_normalize(f25519_mul__distinct(p[1], zi)),
        f25519_normalize(f25519_mul__distinct(p[2], zi))>>

\* unified addition in extended coordinates (a = -1)
ed25519_add(p1, p2) ==
  LET a == f25519_mul__distinct(f25519_sub(p1[2], p1[1]), f25519_sub(p2[2], p2[1]))
      b == f25519_mul__distinct(f25519_add(p1[2], p1[1]), f25519_add(p2[2], p2[1]))
      c == f25519_mul__distinct(f25519_mul__distinct(p1[3], p2[3]),
                                f25519_mul_c(ed25519_d, 2))
      d == f25519_mul_c(f25519_mul__distinct(p1[4], p2[4]), 2)
      e == f25519_sub(b, a)
      f == f25519_sub(d, c)
      g == f25519_add(d, c)
      h == f25519_add(b, a)
  IN  <<f25519_mul__distinct(e, f), f25519_mul__distinct(g, h),
        f25519_mul__distinct(e, h), f25519_mul__distinct(f, g)>>

ed25519_double(p) ==
  LET a == f25519_mul__distinct(p[1], p[1])
      b == f25519_mul__distinct(p[2], p[2])
      c == f25519_mul_c(f25519_mul__distinct(p[4], p[4]), 2)
      xy == f25519_add(p[1], p[2])
      e == f25519_sub(f25519_sub(f25519_mul__distinct(xy, xy), a), b)
      g == f25519_sub(b, a)
      f == f25519_sub(g, c)
      h == f25519_neg(f25519_add(b, a))
  IN  <<f25519_mul__distinct(e, f), f25519_mul__distinct(g, h),
        f25519_mul__distinct(e, h), f25519_mul__distinct(f, g)>>

\* one step of the loop, for bit i of the scalar: double, add, select
ed25519_smult_step(r, p, e, i) ==
  LET r2 == ed25519_double(r)
      s  == ed25519_add(r2, p)
  IN  f25519_select(r2, s, BitOf(e, i))

\* the steps for i = hi down to lo, in that order
RECURSIVE ed25519_smult_from(_, _, _, _, _)
ed25519_smult_from(r, p, e, hi, lo) ==
  IF hi = lo THEN ed25519_smult_step(r, p, e, hi)
  ELSE LET mid == (hi + lo + 1) \div 2
           r1  == ed25519_smult_from(r, p, e, hi, mid)
       IN  \* the test makes TLC evaluate the upper steps before the lower ones
           IF r1 = r1 THEN ed25519_smult_from(r1, p, e, mid - 1, lo) ELSE r1

\* for (i = 255; i >= 0; i--): from the top bit of the scalar
ed25519_smult(p, e) ==
  \* the test makes TLC evaluate the arguments before the loop
  IF p = p /\ e = e THEN ed25519_smult_from(ed25519_neutral, p, e, ScalarBits - 1, 0) ELSE p

(***************************************************************************)
(* Scalar layer F_n (fprime.h; the implementation is not part of the       *)
(* sources at hand: arithmetic modulo the group order, spec section 4.2).  *)
(* A scalar is a 32-byte array.                                            *)
(***************************************************************************)
\* the order of the base point (2^252 + 27742... in the source)
ecdsa_n == 37

fprime_zero == ToBytes(0)

fprime_copy(a) == a

fprime_eq(a, b) == IF a = b THEN 1 ELSE 0

\* reduce a field element (a number in the model) modulo n into a scalar
fprime_from_bytes(x, n) == ToBytes(x % n)

\* reduce a scalar modulo n
fprime_normalize(x, n) == ToBytes(ModBytes(x, n))

fprime_add(r, a, n) == ToBytes((ModBytes(r, n) + ModBytes(a, n)) % n)

fprime_mul(a, b, n) == ToBytes((ModBytes(a, n) * ModBytes(b, n)) % n)

RECURSIVE NPow(_, _, _)
NPow(a, e, n) ==
  IF e = 0 THEN 1
  ELSE LET h == NPow(a, e \div 2, n)
           s == (h * h) % n
       IN  IF e % 2 = 1 THEN (s * a) % n ELSE s

\* a^(n - 2) mod n
fprime_inv(a, n) == ToBytes(NPow(ModBytes(a, n), n - 2, n))

(***************************************************************************)
(* ecdsa.c                                                                 *)
(***************************************************************************)
\* a pass of rshift that shifts each byte and carries nothing between bytes
rshift_pass_uncarried(A, i, cOld) == [j \in Idx |-> A[j] \div 2]

\* one pass of the inner loop: for (i = FPRIME_SIZE; i--;), carry cOld
RECURSIVE rshift_pass(_, _, _)
rshift_pass(A, i, cOld) ==
  IF i = 0 THEN A
  ELSE LET c == A[i] % 2
           B == [A EXCEPT ![i] = ((A[i] \div 2) + (cOld * (ByteSize \div 2))) % ByteSize]
       IN  IF B = B /\ c = c THEN rshift_pass(B, i - 1, c) ELSE B

\* rshift shifting nothing
rshift_nothing(A, t) == A

RECURSIVE rshift(_, _)
rshift(A, t) ==
  IF t = 0 THEN A
  ELSE LET B == rshift_pass(A, FPRIME_SIZE, 0)
       IN  \* the test makes TLC evaluate this pass before the next one
           IF B = B THEN rshift(B, t - 1) ELSE B

\* ecdsa_pubkey without the conversion: the Edwards coordinates
ecdsa_pubkey_unmapped(secret) ==
  ed25519_unproject(ed25519_smult(ed25519_base, secret))

\* ecdsa_pubkey passing the Edwards coordinates in the wrong order
ecdsa_pubkey_swapped(secret) ==
  LET p1 == ed25519_smult(ed25519_base, secret)
      e  == ed25519_unproject(p1)
  IN  morph25519_e2w(e[2], e[1])

ecdsa_pubkey(secret) ==
  LET p1 == ed25519_smult(ed25519_base, secret)
      e  == ed25519_unproject(p1)
  IN  morph25519_e2w(e[1], e[2])

\* ecdsa_sign without the final test of s
ecdsa_sign_untested(r0, s0, d, e, k) ==
  IF fprime_eq(k, fprime_zero) = 1 THEN <<r0, s0, 0>>
  ELSE
    LET p1 == ed25519_smult(ed25519_base, k)
        ep == ed25519_unproject(p1)
        w  == morph25519_e2w(ep[1], ep[2])
        r  == fprime_from_bytes(w[1], ecdsa_n)
    IN  IF fprime_eq(r, fprime_zero) = 1 THEN <<r, s0, 0>>
        ELSE
          LET t  == fprime_mul(r, d, ecdsa_n)
              z0 == rshift(fprime_copy(e), 3)
              z  == fprime_add(z0, t, ecdsa_n)
              t2 == fprime_inv(k, ecdsa_n)
              s  == fprime_normalize(fprime_mul(t2, z, ecdsa_n), ecdsa_n)
          IN  <<r, s, 1>>

\* r0, s0: the caller's buffers; returns <<r, s, return value>>
ecdsa_sign(r0, s0, d, e, k) ==
  IF fprime_eq(k, fprime_zero) = 1 THEN <<r0, s0, 0>>
  ELSE
    LET p1 == ed25519_smult(ed25519_base, k)
        ep == ed25519_unproject(p1)
        w  == morph25519_e2w(ep[1], ep[2])
        r  == fprime_from_bytes(w[1], ecdsa_n)
    IN  IF fprime_eq(r, fprime_zero) = 1 THEN <<r, s0, 0>>
        ELSE
          LET t  == fprime_mul(r, d, ecdsa_n)
              z0 == rshift(fprime_copy(e), 3)
              z  == fprime_add(z0, t, ecdsa_n)
              t2 == fprime_inv(k, ecdsa_n)
              s  == fprime_normalize(fprime_mul(t2, z, ecdsa_n), ecdsa_n)
          IN  IF fprime_eq(s, fprime_zero) = 1 THEN <<r, s, 0>> ELSE <<r, s, 1>>

ecdsa_verify(x, y, e, r, s) ==
  LET z  == rshift(fprime_copy(e), 3)
      w  == fprime_inv(s, ecdsa_n)
      u1 == fprime_mul(z, w, ecdsa_n)
      u2 == fprime_mul(r, w, ecdsa_n)
      q  == morph25519_w2e(x, y)
      Q  == ed25519_project(q[1], q[2])
      p1 == ed25519_smult(ed25519_base, u1)
      p2 == ed25519_smult(Q, u2)
      R  == ed25519_unproject(ed25519_add(p1, p2))
      wp == morph25519_e2w(R[1], R[2])
      wx == wp[1] % ecdsa_n
  IN  f25519_eq(wx, ModBytes(r, P))

(***************************************************************************)
(* c25519.c: X-only Montgomery ladder.  A ladder state is                  *)
(* <<xm, zm, xm1, zm1>>.                                                   *)
(***************************************************************************)
c25519_base_x == 9

\* the y coordinate of the base point: the Montgomery image of the Edwards base
c25519_base_y ==
  f25519_mul__distinct(f25519_mul__distinct(f25519_c, morph25519_e2m(ed25519_base_y)),
                       f25519_inv__distinct(ed25519_base_x))

\* key[0] &= 0xf8; key[31] &= 0x7f; key[31] |= 0x40
c25519_prepare(key) ==
  [key EXCEPT ![1] = key[1] - (key[1] % 8),
              ![FPRIME_SIZE] = (key[FPRIME_SIZE] % (ByteSize \div 4)) + (ByteSize \div 4)]

\* xc_double with the factor 4 of z3 replaced by 2
xc_double_halved(x1, z1) ==
  LET x1sq == f25519_mul__distinct(x1, x1)
      z1sq == f25519_mul__distinct(z1, z1)
      x1z1 == f25519_mul__distinct(x1, z1)
      a    == f25519_sub(x1sq, z1sq)
      x3   == f25519_mul__distinct(a, a)
      a2   == f25519_mul_c(x1z1, f25519_A)
      a3   == f25519_add(x1sq, a2)
      a4   == f25519_add(z1sq, a3)
      t    == f25519_mul__distinct(x1z1, a4)
      z3   == f25519_mul_c(t, 2)
  IN  <<x3, z3>>

\* returns <<x3, z3>>
xc_double(x1, z1) ==
  LET x1sq == f25519_mul__distinct(x1, x1)
      z1sq == f25519_mul__distinct(z1, z1)
      x1z1 == f25519_mul__distinct(x1, z1)
      a    == f25519_sub(x1sq, z1sq)
      x3   == f25519_mul__distinct(a, a)
      a2   == f25519_mul_c(x1z1, f25519_A)
      a3   == f25519_add(x1sq, a2)
      a4   == f25519_add(z1sq, a3)
      t    == f25519_mul__distinct(x1z1, a4)
      z3   == f25519_mul_c(t, 4)
  IN  <<x3, z3>>

\* returns <<x5, z5>>
\* xc_diffadd without the factors z1 and x1 of the difference
xc_diffadd_undivided(x1, z1, x2, z2, x3, z3) ==
  LET da == f25519_mul__distinct(f25519_add(x2, z2), f25519_sub(x3, z3))
      cb == f25519_mul__distinct(f25519_add(x3, z3), f25519_sub(x2, z2))
      a3 == f25519_add(da, cb)
      a4 == f25519_sub(da, cb)
  IN  <<f25519_mul__distinct(a3, a3), f25519_mul__distinct(a4, a4)>>

\* returns <<x5, z5>>
xc_diffadd(x1, z1, x2, z2, x3, z3) ==
  LET a  == f25519_add(x2, z2)
      b  == f25519_sub(x3, z3)
      da == f25519_mul__distinct(a, b)
      b2 == f25519_sub(x2, z2)
      a2 == f25519_add(x3, z3)
      cb == f25519_mul__distinct(a2, b2)
      a3 == f25519_add(da, cb)
      b3 == f25519_mul__distinct(a3, a3)
      x5 == f25519_mul__distinct(z1, b3)
      a4 == f25519_sub(da, cb)
      b4 == f25519_mul__distinct(a4, a4)
      z5 == f25519_mul__distinct(x1, b4)
  IN  <<x5, z5>>

\* the body of the ladder loop for bit i
ladder_step(st, q, e, i) ==
  LET bit == BitOf(e, i)
      d1  == xc_diffadd(q, f25519_one, st[1], st[2], st[3], st[4])
      dd  == xc_double(st[1], st[2])
      ds  == xc_diffadd(d1[1], d1[2], dd[1], dd[2], q, f25519_one)
  IN  << f25519_select(dd[1], ds[1], bit),
         f25519_select(dd[2], ds[2], bit),
         f25519_select(d1[1], dd[1], bit),
         f25519_select(d1[2], dd[2], bit) >>

\* the primitive operations one iteration calls when bit i is 0 and not
\* those it calls when the bit is 1
ladder_calls_branching(bit) ==
  IF bit = 1
  THEN <<"xc_diffadd", "xc_double", "xc_diffadd",
         "f25519_select", "f25519_select", "f25519_select", "f25519_select">>
  ELSE <<"xc_diffadd", "xc_double",
         "f25519_select", "f25519_select", "f25519_select", "f25519_select">>

\* the primitive operations the body of the loop calls, in order, for the
\* value bit of the scalar's bit i: the body has no branch
ladder_calls(bit) ==
  <<"xc_diffadd", "xc_double", "xc_diffadd",
    "f25519_select", "f25519_select", "f25519_select", "f25519_select">>

\* the iterations i = hi, hi - 1, ..., lo of the loop
RECURSIVE ladder_from(_, _, _, _, _)
ladder_from(st, q, e, hi, lo) ==
  IF hi = lo THEN ladder_step(st, q, e, hi)
  ELSE LET mid == (hi + lo + 1) \div 2
           s1  == ladder_from(st, q, e, hi, mid)
       IN  \* the test makes TLC evaluate the upper steps before the lower ones
           IF s1 = s1 THEN ladder_from(s1, q, e, mid - 1, lo) ELSE s1

\* f25519_copy(xm, q); for (i = 253; i >= 0; i--): from the bit below bit 254
projective_ladder(zm, xm1, zm1, q, e) ==
  ladder_from(<<f25519_copy(q), zm, xm1, zm1>>, q, e, ScalarBits - 3, 0)

c25519_smult(q, e) ==
  IF q = q /\ e = e
  THEN LET st  == projective_ladder(1, 1, 0, q, e)
           zm1 == f25519_inv__distinct(st[2])
       IN  f25519_normalize(f25519_mul__distinct(zm1, st[1]))
  ELSE q

(***************************************************************************)
(* morph25519_montgomery_recovery (declared in morph25519.h; the body is   *)
(* not part of the sources at hand and follows the thirteen steps of spec  *)
(* section 4.5.4): from P = (xP, yP), x(Q) = (XQ : ZQ) and                  *)
(* x(P + Q) = (xD : zD) to Q = (X' : Y' : Z').  2A is a constant of        *)
(* f25519_mul_c, 2B = 2.                                                   *)
(***************************************************************************)
morph25519_montgomery_recovery(xP, yP, XQ, ZQ, xD, zD) ==
  LET v1a == f25519_mul__distinct(xP, ZQ)
      v2a == f25519_add(XQ, v1a)
      d3  == f25519_sub(XQ, v1a)
      v3  == f25519_mul__distinct(f25519_mul__distinct(d3, d3), xD)
      v1b == f25519_mul_c(ZQ, 2 * f25519_A)
      v2b == f25519_add(v2a, v1b)
      v4  == f25519_add(f25519_mul__distinct(xP, XQ), ZQ)
      v2c == f25519_mul__distinct(v2b, v4)
      v1c == f25519_mul__distinct(v1b, ZQ)
      v2d == f25519_mul__distinct(f25519_sub(v2c, v1c), zD)
      yQ  == f25519_sub(v2d, v3)
      v1d == f25519_mul__distinct(
               f25519_mul__distinct(f25519_mul_c(yP, 2), ZQ), zD)
  IN  <<f25519_mul__distinct(v1d, XQ), yQ, f25519_mul__distinct(v1d, ZQ)>>

\* returns <<xR, yR>>
c25519_smult_xy(xP, yP, e) ==
  IF xP = xP /\ yP = yP /\ e = e
  THEN LET st == projective_ladder(1, 1, 0, xP, e)
           r  == morph25519_montgomery_recovery(xP, yP, st[1], st[2], st[3], st[4])
           zm == f25519_inv__distinct(r[3])
       IN  << f25519_normalize(f25519_mul__distinct(zm, r[1])),
              f25519_normalize(f25519_mul__distinct(zm, r[2])) >>
  ELSE <<xP, yP>>

(***************************************************************************)
(* The three curves, as sets of canonical affine points.                   *)
(***************************************************************************)
\* Weierstrass a = (3 - A^2)/3 and b = (2A^3 - 9A)/27
wei25519_a ==
  f25519_mul__distinct(3 + (P - ((f25519_A * f25519_A) % P)), f25519_inv__distinct(3))

wei25519_b ==
  f25519_mul__distinct(
    (2 * ((f25519_A * f25519_A * f25519_A) % P)) + (9 * (P - f25519_A)),
    f25519_inv__distinct(27))

\* -x^2 + y^2 = 1 + d x^2 y^2
OnEd(x, y) ==
  ((y * y) + (P - ((x * x) % P))) % P
    = (1 + (((ed25519_d * ((x * x) % P)) % P) * ((y * y) % P))) % P

\* y^2 = x^3 + A x^2 + x
OnMont(x, y) ==
  (y * y) % P = (((((x * x) % P) * x) % P) + (f25519_A * ((x * x) % P)) + x) % P

\* y^2 = x^3 + a x + b
OnWei(x, y) ==
  (y * y) % P = (((((x * x) % P) * x) % P) + (wei25519_a * x) + wei25519_b) % P

EdPoints == {q \in Canon \X Canon : OnEd(q[1], q[2])}

MontPoints == {q \in Canon \X Canon : OnMont(q[1], q[2])}

WeiPoints == {q \in Canon \X Canon : OnWei(q[1], q[2])}

\* the points the maps are not defined for
EdExceptional == {<<0, 1>>, <<0, P - 1>>}

MontExceptional == {<<0, 0>>}

\* (A/3, 0)
WeiExceptional == {<<f25519_delta, 0>>}

(***************************************************************************)
(* morph25519_wx2wy (declared in morph25519.h; the body is not part of the *)
(* sources at hand and follows spec section 4.5.2, with the selection of   *)
(* the root as in ey2ex).  Returns <<wy, ok>>.                             *)
(***************************************************************************)
morph25519_wx2wy(wx, sign) ==
  LET x2 == f25519_mul__distinct(wx, wx)
      x3 == f25519_mul__distinct(x2, wx)
      ax == f25519_mul__distinct(wei25519_a, wx)
      t  == f25519_add(f25519_add(x3, ax), wei25519_b)
      a  == f25519_sqrt(t)
      b  == f25519_neg(a)
      wy == f25519_select(a, b, ((a % 2) + sign) % 2)
      v  == f25519_normalize(f25519_mul__distinct(wy, wy))
  IN  <<wy, f25519_eq(v, f25519_normalize(t))>>

(***************************************************************************)
(* A client of the isomorphism layer: it loads a pair of field elements    *)
(* as a point of one form and passes the current value through the         *)
(* conversions, at most MaxCalls of them.                                  *)
(***************************************************************************)
VARIABLES
  orig,   \* the value loaded: <<form, x, y>>
  prev,   \* the value before the last call
  cur,    \* the current value: <<form, x, y>>, x-only values have y = 0
  path,   \* the calls made so far
  ok,     \* the return value of the last call that has one
  arg,    \* the parity argument of the last call that has one
  stage,  \* ECDSA client: "idle", "keyed" or "derived", "signed", "verified"
  key,    \* the secret scalar d
  pub,    \* ecdsa_pubkey's output <<wx, wy>>
  dig,    \* the digest e passed to ecdsa_sign
  nonce,  \* the nonce k passed to ecdsa_sign
  sig,    \* the buffers <<r, s>> ecdsa_sign writes
  sok,    \* ecdsa_sign's return value
  kind,   \* which verification was made: "honest", "flipped", "forged"
  flip,   \* the digest bit flipped before a "flipped" verification
  vdig,   \* the digest passed to ecdsa_verify
  vsig,   \* the <<r, s>> passed to ecdsa_verify
  vres,   \* ecdsa_verify's return value
  lstage, \* ladder client: "idle", "done"
  lraw,   \* the 32 random bytes
  le,     \* the scalar after c25519_prepare
  lmx,    \* c25519_smult's result
  lxy,    \* c25519_smult_xy's result <<xR, yR>>
  led,    \* the unprojected Edwards multiple <<ex, ey>>
  pstage, \* c25519_smult in steps: "idle", "loop", "done"
  pq,     \* the base q
  pe,     \* the scalar e
  pi,     \* the loop variable i of projective_ladder
  pst,    \* the ladder's buffers <<xm, zm, xm1, zm1>>
  pops,   \* the primitive operations the loop has called, in order
  pres    \* c25519_smult's result

mvars == <<orig, prev, cur, path, ok, arg>>

evars == <<stage, key, pub, dig, nonce, sig, sok, kind, flip, vdig, vsig, vres>>

lvars == <<lstage, lraw, le, lmx, lxy, led>>

pvars == <<pstage, pq, pe, pi, pst, pops, pres>>

vars == <<mvars, evars, lvars, pvars>>

None == <<"none", 0, 0>>

MInit ==
  /\ orig = None
  /\ prev = None
  /\ cur = None
  /\ path = << >>
  /\ ok = 1
  /\ arg = 0

EInit ==
  /\ stage = "idle"
  /\ key = fprime_zero
  /\ pub = <<0, 0>>
  /\ dig = fprime_zero
  /\ nonce = fprime_zero
  /\ sig = <<fprime_zero, fprime_zero>>
  /\ sok = 0
  /\ kind = "none"
  /\ flip = 0
  /\ vdig = fprime_zero
  /\ vsig = <<fprime_zero, fprime_zero>>
  /\ vres = 0

LInit ==
  /\ lstage = "idle"
  /\ lraw = fprime_zero
  /\ le = fprime_zero
  /\ lmx = 0
  /\ lxy = <<0, 0>>
  /\ led = <<0, 1>>

PInit ==
  /\ pstage = "idle"
  /\ pq = 0
  /\ pe = fprime_zero
  /\ pi = ScalarBits - 3
  /\ pst = <<0, 1, 1, 0>>
  /\ pops = << >>
  /\ pres = 0

Init == MInit /\ EInit /\ LInit /\ PInit

(***************************************************************************)
(* A client of morph25519.c: loads a value and applies the conversions.    *)
(***************************************************************************)
MaxCalls == 2

\* y-coordinates of loaded pairs that are not curve points
RawY == {0, 1}

Load(form, x, y) ==
  /\ orig' = <<form, x, y>>
  /\ cur' = <<form, x, y>>
  /\ UNCHANGED <<prev, path, ok, arg, evars, lvars, pvars>>

LoadEd == cur = None /\ \E q \in EdPoints : Load("e", q[1], q[2])

LoadWei == cur = None /\ \E q \in WeiPoints : Load("w", q[1], q[2])

LoadMont == cur = None /\ \E q \in MontPoints : Load("m", q[1], q[2])

\* any 32 bytes may be passed as a coordinate
LoadRaw ==
  /\ cur = None
  /\ \E form \in {"m", "w"}, x \in FieldBytes, y \in RawY : Load(form, x, y)

Call(name, from, to, r) ==
  /\ cur[1] \in from
  /\ Len(path) < MaxCalls
  /\ prev' = cur
  /\ cur' = <<to, r[1], r[2]>>
  /\ path' = Append(path, name)
  /\ UNCHANGED <<orig, ok, arg, evars, lvars, pvars>>

CallE2W == Call("e2w", {"e"}, "w", morph25519_e2w(cur[2], cur[3]))

CallW2E == Call("w2e", {"w"}, "e", morph25519_w2e(cur[2], cur[3]))

CallM2W == Call("m2w", {"m"}, "w", morph25519_m2w(cur[2], cur[3]))

CallW2M == Call("w2m", {"w"}, "m", morph25519_w2m(cur[2], cur[3]))

CallE2M == Call("e2m", {"e"}, "mx", <<morph25519_e2m(cur[3]), 0>>)

CallM2E ==
  /\ cur[1] \in {"mx", "m"}
  /\ Len(path) < MaxCalls
  /\ \E parity \in {0, 1} :
       LET r == morph25519_m2e(cur[2], parity)
       IN  /\ prev' = cur
           /\ cur' = <<"e", r[1], r[2]>>
           /\ path' = Append(path, "m2e")
           /\ ok' = r[3]
           /\ arg' = parity
           /\ UNCHANGED <<orig, evars, lvars, pvars>>

\* any 32 bytes may be passed to ey2ex as a y-coordinate
LoadY == cur = None /\ \E y \in FieldBytes : Load("y", 0, y)

\* ey2ex writes x and returns ok; x is kept as written (not normalized)
CallEy2ex ==
  /\ cur[1] = "y"
  /\ Len(path) < MaxCalls
  /\ \E parity \in {0, 1} :
       LET r == ey2ex(cur[3], parity)
       IN  /\ prev' = cur
           /\ cur' = <<"ex", r[1], cur[3]>>
           /\ path' = Append(path, "ey2ex")
           /\ ok' = r[2]
           /\ arg' = parity
           /\ UNCHANGED <<orig, evars, lvars, pvars>>

\* test_morph_wx2wy: one call of morph25519_wx2wy on the current wx
CallWx2wy ==
  /\ cur[1] = "w"
  /\ Len(path) < MaxCalls
  /\ \E sign \in {0, 1} :
       LET r == morph25519_wx2wy(cur[2], sign)
       IN  /\ prev' = cur
           /\ cur' = <<"wy", cur[2], r[1]>>
           /\ path' = Append(path, "wx2wy")
           /\ ok' = r[2]
           /\ arg' = sign
           /\ UNCHANGED <<orig, evars, lvars, pvars>>

\* morph25519_e2w(a, b, a, b): the outputs are the buffers of the inputs
CallE2WInPlace ==
  /\ cur[1] = "e"
  /\ Len(path) < MaxCalls
  /\ LET m == morph25519_e2w_bufs([a |-> cur[2], b |-> cur[3]], "a", "b", "a", "b")
     IN  /\ prev' = cur
         /\ cur' = <<"w", m.a, m.b>>
         /\ path' = Append(path, "e2w_inplace")
         /\ UNCHANGED <<orig, ok, arg, evars, lvars, pvars>>

MNext ==
  \/ LoadEd
  \/ LoadWei
  \/ LoadMont
  \/ LoadRaw
  \/ CallE2W
  \/ CallW2E
  \/ CallM2W
  \/ CallW2M
  \/ CallE2M
  \/ CallM2E
  \/ LoadY
  \/ CallEy2ex
  \/ CallWx2wy
  \/ CallE2WInPlace

SpecMorph == Init /\ [][MNext]_vars

(***************************************************************************)
(* A client of ecdsa.c: derives a public key, signs a digest, and verifies *)
(* the signature with the digest as signed or with one bit flipped; or     *)
(* verifies an <<r, s>> that was never signed.                             *)
(***************************************************************************)
MaxSecret == 6

Secrets == {ToBytes(v) : v \in 1..MaxSecret}

MaxDigest == 9

\* small digests, with and without the three bits that rshift(z, 3) drops,
\* and digests whose shifted value is n or more: 8n, 8n + 4 and the largest
Digests ==
  {ToBytes(v) : v \in (0..MaxDigest) \cup {8 * ecdsa_n, (8 * ecdsa_n) + 4, (2 ^ ScalarBits) - 1}}

MaxNonce == 9

\* 0, small nonces, multiples of n, and the largest nonce
Nonces ==
  {ToBytes(v) : v \in (0..MaxNonce) \cup {ecdsa_n, 2 * ecdsa_n, 13 * ecdsa_n, (2 ^ ScalarBits) - 1}}

FlipBits == 0..(ScalarBits - 1)

FlipBit(e, b) ==
  [e EXCEPT ![(b \div ByteBits) + 1] =
     IF BitOf(e, b) = 1 THEN @ - (2 ^ (b % ByteBits)) ELSE @ + (2 ^ (b % ByteBits))]

\* scalars a forger may pass: 0, an x-coordinate reduced, n, and beyond n
Forged == {ToBytes(v) : v \in {0, f25519_delta % ecdsa_n, ecdsa_n,
                                ecdsa_n + (f25519_delta % ecdsa_n)}}

\* the scalar is one of 1, ..., n - 1
ScalarInRange(x) == \E v \in 1..(ecdsa_n - 1) : x = ToBytes(v)

EPubkey ==
  /\ stage = "idle"
  /\ \E d \in Secrets :
       /\ key' = d
       /\ pub' = ecdsa_pubkey(d)
  /\ stage' = "keyed"
  /\ UNCHANGED <<dig, nonce, sig, sok, kind, flip, vdig, vsig, vres, mvars, lvars, pvars>>

ESign ==
  /\ stage = "keyed"
  /\ \E e \in Digests, k \in Nonces :
       LET out == ecdsa_sign(sig[1], sig[2], key, e, k)
       IN  /\ dig' = e
           /\ nonce' = k
           /\ sig' = <<out[1], out[2]>>
           /\ sok' = out[3]
  /\ stage' = "signed"
  /\ UNCHANGED <<key, pub, kind, flip, vdig, vsig, vres, mvars, lvars, pvars>>

Verify(k, b, e, r, s) ==
  /\ kind' = k
  /\ flip' = b
  /\ vdig' = e
  /\ vsig' = <<r, s>>
  /\ vres' = ecdsa_verify(pub[1], pub[2], e, r, s)
  /\ stage' = "verified"
  /\ UNCHANGED <<key, pub, dig, nonce, sig, sok, mvars, lvars, pvars>>

EVerify ==
  /\ stage = "signed"
  /\ sok = 1
  /\ Verify("honest", 0, dig, sig[1], sig[2])

EVerifyFlipped ==
  /\ stage = "signed"
  /\ sok = 1
  /\ \E b \in FlipBits : Verify("flipped", b, FlipBit(dig, b), sig[1], sig[2])

EVerifyForged ==
  /\ stage = "keyed"
  /\ \E e \in Digests, r \in Forged, s \in Forged :
       /\ ~(ScalarInRange(r) /\ ScalarInRange(s))
       /\ Verify("forged", 0, e, r, s)

\* every secret of the interval [1, n - 1] of ecdsa.h
AllSecrets == {ToBytes(v) : v \in 1..(ecdsa_n - 1)}

\* a client that derives a public key and does nothing else with it
EDerive ==
  /\ stage = "idle"
  /\ \E d \in AllSecrets :
       /\ key' = d
       /\ pub' = ecdsa_pubkey(d)
  /\ stage' = "derived"
  /\ UNCHANGED <<dig, nonce, sig, sok, kind, flip, vdig, vsig, vres, mvars, lvars, pvars>>

ENext ==
  \/ EPubkey
  \/ EDerive
  \/ ESign
  \/ EVerify
  \/ EVerifyFlipped
  \/ EVerifyForged

SpecEcdsa == Init /\ [][ENext]_vars

(***************************************************************************)
(* test_sm: a random scalar is clamped and multiplied on both curves.      *)
(***************************************************************************)
\* the random bytes: every value of a scalar
RawScalars == {ToBytes(v) : v \in 0..((2 ^ ScalarBits) - 1)}

LSmult ==
  /\ lstage = "idle"
  /\ \E raw \in RawScalars :
       LET e == c25519_prepare(raw)
       IN  /\ lraw' = raw
           /\ le' = e
           /\ lmx' = c25519_smult(c25519_base_x, e)
           /\ lxy' = c25519_smult_xy(c25519_base_x, c25519_base_y, e)
           /\ led' = ed25519_unproject(ed25519_smult(ed25519_base, e))
  /\ lstage' = "done"
  /\ UNCHANGED <<mvars, evars, pvars>>

LNext == LSmult

SpecLadder == Init /\ [][LNext]_vars

(***************************************************************************)
(* c25519_smult one iteration of projective_ladder at a time.              *)
(***************************************************************************)
\* bases q: x = 0, 1, 235, 9, 3, 10, 17 belong to points of Curve25519 of
\* order 2, 4, 8, n, 2n, 4n, 8n; x = 2 belongs to the twist; p + 9 is the
\* base in non-canonical form
LadderBases == {0, 1, 235, c25519_base_x, 3, 10, 17, 2, P + c25519_base_x}

\* c25519_smult up to the loop: zm = {1}, xm1 = {1}, zm1 = {0}, and the
\* copy of q into xm
PStart ==
  /\ pstage = "idle"
  /\ \E q \in LadderBases, e \in RawScalars :
       /\ pq' = q
       /\ pe' = e
       /\ pst' = <<f25519_copy(q), 1, 1, 0>>
  /\ pi' = ScalarBits - 3
  /\ pops' = << >>
  /\ pstage' = "loop"
  /\ UNCHANGED <<pres, mvars, evars, lvars>>

\* one iteration of the loop
PIter ==
  /\ pstage = "loop"
  /\ pi >= 0
  /\ pst' = ladder_step(pst, pq, pe, pi)
  /\ pops' = pops \o ladder_calls(BitOf(pe, pi))
  /\ pi' = pi - 1
  /\ UNCHANGED <<pstage, pq, pe, pres, mvars, evars, lvars>>

\* the loop has ended: result = normalize(xm / zm)
PFreeze ==
  /\ pstage = "loop"
  /\ pi < 0
  /\ pres' = f25519_normalize(
               f25519_mul__distinct(f25519_inv__distinct(pst[2]), pst[1]))
  /\ pstage' = "done"
  /\ UNCHANGED <<pq, pe, pi, pst, pops, mvars, evars, lvars>>

PNext == PStart \/ PIter \/ PFreeze

SpecSteps == Init /\ [][PNext]_vars

(***************************************************************************)
(* Reference values for the properties: the group law of Ed25519 in affine *)
(* coordinates, the multiples of the base point, and the maps as the       *)
(* formulas of the curves give them.                                       *)
(***************************************************************************)
RefInv(a) == FPow(a % P, P - 2)

RefEdAdd(p, q) ==
  LET xx == (p[1] * q[1]) % P
      yy == (p[2] * q[2]) % P
      t  == (((ed25519_d * xx) % P) * yy) % P
      x3 == ((((p[1] * q[2]) + (p[2] * q[1])) % P) * RefInv(1 + t)) % P
      y3 == (((yy + xx) % P) * RefInv(1 + P - t)) % P
  IN  <<x3, y3>>

RECURSIVE RefMultiple(_)
RefMultiple(j) ==
  IF j = 0 THEN <<0, 1>>
  ELSE LET h == RefMultiple(j \div 2)
           d == RefEdAdd(h, h)
       IN  IF j % 2 = 1 THEN RefEdAdd(d, <<ed25519_base_x, ed25519_base_y>>) ELSE d

\* j * G for j = 0, ..., n - 1
GTable == [j \in 0..(ecdsa_n - 1) |-> RefMultiple(j)]

\* the Weierstrass x of an Edwards point: (1 + y)/(1 - y) + delta
RefWx(q) == ((((1 + q[2]) * RefInv(1 + P - q[2])) % P) + f25519_delta) % P

\* floor(e / 8) modulo n, for the 32-byte number e
RefZ(e) ==
  (((ModBytes(e, ecdsa_n) + ecdsa_n) - (e[1] % 8)) * NPow(8, ecdsa_n - 2, ecdsa_n)) % ecdsa_n

\* the scalar as a number modulo n
Num(x) == ModBytes(x, ecdsa_n)

\* the r of the signature (r, s) on a digest with shifted value z, for key d:
\* the x-coordinate of ((z + r d)/s) G, reduced modulo n
RefR(z, r, s, d) ==
  RefWx(GTable[((z + (r * d)) * NPow(s, ecdsa_n - 2, ecdsa_n)) % ecdsa_n]) % ecdsa_n

(***************************************************************************)
(* Properties                                                              *)
(***************************************************************************)

\* C1: every signature ecdsa_sign returned with 1, for a key d in [1, n-1],
\* a digest e (also one whose top bits are set) and a nonce k, is accepted
\* by ecdsa_verify under ecdsa_pubkey(d) and the same digest.
C1_Soundness ==
  (stage = "verified" /\ kind = "honest") => vres = 1

\* a signature on the digest of all ones, whose shifted value is above n,
\* made with the nonce of all ones, has been verified
C1_Witness ==
  /\ stage = "verified"
  /\ kind = "honest"
  /\ dig = ToBytes((2 ^ ScalarBits) - 1)
  /\ nonce = ToBytes((2 ^ ScalarBits) - 1)
  /\ vres = 1

\* C2: ecdsa_verify returns 0 whenever r or s is outside [1, n-1].
C2_RangeRejected ==
  (stage = "verified" /\ ~(ScalarInRange(vsig[1]) /\ ScalarInRange(vsig[2])))
    => vres = 0

\* C3, as stated: verification of a signature against the digest with any
\* one bit flipped returns 0.
C3_TamperRejected ==
  (stage = "verified" /\ kind = "flipped") => vres = 0

\* C3, amended: flipping bit 0, 1 or 2 of e[0] leaves z = e >> 3 as it was
\* and the signature is still accepted; flipping any other bit changes z
\* modulo n, and the signature is accepted only if the point ((z' + r d)/s) G
\* that the verification computes has an x-coordinate congruent to r.
C3_TamperAmended ==
  (stage = "verified" /\ kind = "flipped") =>
    IF flip < 3
    THEN RefZ(vdig) = RefZ(dig) /\ vres = 1
    ELSE /\ RefZ(vdig) # RefZ(dig)
         /\ vres = 1 <=> RefR(RefZ(vdig), Num(vsig[1]), Num(vsig[2]), Num(key)) = Num(vsig[1])

\* the signature was rejected for the digest with bit 3 flipped
C3_Witness ==
  stage = "verified" /\ kind = "flipped" /\ flip = 3 /\ vres = 0

\* C4: when ecdsa_sign returns 1, r is the Weierstrass x of k G reduced
\* modulo n, s k = z + r d modulo n with z = floor(e / 8), and r and s are
\* scalars in [1, n-1].
C4_SignOutputs ==
  (stage = "signed" /\ sok = 1) =>
    /\ ScalarInRange(sig[1])
    /\ ScalarInRange(sig[2])
    /\ Num(nonce) # 0
    /\ Num(sig[1]) = RefWx(GTable[Num(nonce)]) % ecdsa_n
    /\ (Num(sig[2]) * Num(nonce)) % ecdsa_n
         = (RefZ(dig) + (Num(sig[1]) * Num(key))) % ecdsa_n

\* a digest with a low bit set and a shifted value of n has been signed
C4_Witness ==
  /\ stage = "signed"
  /\ sok = 1
  /\ dig = ToBytes((8 * ecdsa_n) + 4)
  /\ Num(nonce) = 5

\* the cases in which no signature is made: k = 0 modulo n, r = 0, s = 0
BadNonce ==
  LET k == Num(nonce)
      r == RefWx(GTable[k]) % ecdsa_n
  IN  \/ k = 0
      \/ r = 0
      \/ (RefZ(dig) + (r * Num(key))) % ecdsa_n = 0

\* C5: ecdsa_sign returns 0 when k is 0 modulo n (the zero k and the
\* nonzero multiples of n), when r = 0 and when s = 0, and returns 1 in
\* every other case.
C5_BadNonce ==
  stage = "signed" => sok = (IF BadNonce THEN 0 ELSE 1)

\* a nonzero multiple of n was passed as the nonce, and 0 returned
C5_Witness ==
  stage = "signed" /\ nonce # fprime_zero /\ Num(nonce) = 0 /\ sok = 0

\* C6: for a clamped scalar e, c25519_smult(c25519_base_x, e) is the
\* Montgomery x (morph25519_e2m) of the y-coordinate of e G computed by
\* ed25519_smult and ed25519_unproject.
C6_LadderAgreement ==
  lstage = "done" => lmx = morph25519_e2m(led[2])

\* a scalar that c25519_prepare changed, with a multiple that is neither
\* the neutral element nor the base point
C6_Witness ==
  /\ lstage = "done"
  /\ le # lraw
  /\ lmx \notin {0, c25519_base_x}
  /\ led # <<0, 1>>
  /\ lmx = morph25519_e2m(led[2])

IsPoint(v, form, points, exceptional) ==
  /\ v[1] = form
  /\ <<v[2], v[3]>> \in points
  /\ <<v[2], v[3]>> \notin exceptional

\* C7: morph25519_w2e after morph25519_e2w returns an Ed25519 point other
\* than (0, 1) and (0, -1) as it was, in canonical form; morph25519_e2w
\* after morph25519_w2e returns a Wei25519 point other than (A/3, 0) as it
\* was.
C7_EdWeiRoundTrip ==
  /\ (path = <<"e2w", "w2e">> /\ IsPoint(orig, "e", EdPoints, EdExceptional))
       => cur = orig
  /\ (path = <<"w2e", "e2w">> /\ IsPoint(orig, "w", WeiPoints, WeiExceptional))
       => cur = orig

\* the base point has gone to Wei25519 and back
C7_Witness ==
  /\ path = <<"e2w", "w2e">>
  /\ orig = <<"e", ed25519_base_x, ed25519_base_y>>
  /\ cur = orig
  /\ prev[1] = "w"
  /\ <<prev[2], prev[3]>> \in WeiPoints

\* C8: morph25519_w2m after morph25519_m2w returns a Curve25519 point other
\* than (0, 0) as it was, also a point with mx = -delta; morph25519_m2w
\* after morph25519_w2m returns a Wei25519 point other than (A/3, 0) as it
\* was.
C8_MontWeiRoundTrip ==
  /\ (path = <<"m2w", "w2m">> /\ IsPoint(orig, "m", MontPoints, MontExceptional))
       => cur = orig
  /\ (path = <<"w2m", "m2w">> /\ IsPoint(orig, "w", WeiPoints, WeiExceptional))
       => cur = orig

\* C9: for any 32 bytes, morph25519_mx2wx returns the canonical mx + delta
\* when mx is not 0 modulo p and 0 when it is; morph25519_wx2mx returns the
\* canonical wx - delta when wx is not 0 modulo p and 0 when it is.
C9_ZeroConvention ==
  /\ path = <<"m2w">> =>
       cur[2] = (IF orig[2] % P = 0 THEN 0 ELSE (orig[2] + f25519_delta) % P)
  /\ path = <<"w2m">> =>
       cur[2] = (IF orig[2] % P = 0 THEN 0 ELSE (orig[2] + (P - f25519_delta)) % P)

\* the non-canonical zero 2p has been mapped to 0
C9_Witness ==
  path = <<"m2w">> /\ orig[2] = 2 * P /\ cur[2] = 0

\* C10: for an Ed25519 point (ex, ey) other than (0, 1) and (0, -1),
\* morph25519_m2e of mx = morph25519_e2m(ey) with the parity of ex returns
\* 1 and the point (ex, ey) in canonical form, and morph25519_e2m of the
\* recovered ey is mx.
C10_MontEdRoundTrip ==
  ( /\ path = <<"e2m", "m2e">>
    /\ IsPoint(orig, "e", EdPoints, EdExceptional)
    /\ arg = morph25519_eparity(orig[2]) )
    => /\ ok = 1
       /\ cur = orig
       /\ cur[2] \in Canon /\ cur[3] \in Canon
       /\ morph25519_e2m(cur[3]) = prev[2]

\* a point with odd ex has been recovered from its mx
C10_Witness ==
  /\ path = <<"e2m", "m2e">>
  /\ IsPoint(orig, "e", EdPoints, EdExceptional)
  /\ arg = 1
  /\ orig[2] % 2 = 1
  /\ ok = 1
  /\ cur = orig

\* C11: whenever ey2ex(y, parity) returns 1, the low bit of the normalized
\* x it wrote equals the requested parity, also for y = 1 and y = -1 whose
\* only root is x = 0.
C11_ParitySelected ==
  (path = <<"ey2ex">> /\ ok = 1) => f25519_normalize(cur[2]) % 2 = arg

\* the y-coordinates of the points of Ed25519
EdYs == {q[2] : q \in EdPoints}

\* C12: ey2ex(y, parity) returns 1 exactly when y is the y-coordinate of a
\* point of Ed25519, and the x it then wrote satisfies
\* -x^2 + y^2 = 1 + d x^2 y^2; for every other y it returns 0.
C12_OffCurveDetected ==
  path = <<"ey2ex">> =>
    /\ ok = (IF orig[3] % P \in EdYs THEN 1 ELSE 0)
    /\ ok = 1 => OnEd(cur[2] % P, orig[3] % P)

\* a y that belongs to no point has been refused
C12_Witness ==
  /\ path = <<"ey2ex">>
  /\ orig[1] = "y"
  /\ orig[3] % P \notin EdYs
  /\ ok = 0

\* C13: for (wx, wy) = morph25519_e2w of an Ed25519 point other than (0, 1)
\* and (0, -1), morph25519_wx2wy(wx, sign) returns nonzero for sign 0 and
\* for sign 1, each value it writes satisfies wy'^2 = wx^3 + a wx + b, and
\* for one of the two signs the value is wy.
C13_Wx2wyOnCurve ==
  (path = <<"e2w", "wx2wy">> /\ IsPoint(orig, "e", EdPoints, EdExceptional))
    => LET other == morph25519_wx2wy(prev[2], 1 - arg)
       IN  /\ ok # 0
           /\ other[2] # 0
           /\ OnWei(prev[2], cur[3])
           /\ OnWei(prev[2], other[1])
           /\ f25519_eq(cur[3], prev[3]) = 1 \/ f25519_eq(other[1], prev[3]) = 1

\* the image of the base point: the call with sign 1 wrote wy, hence the
\* call with sign 0 the other root
C13_Witness ==
  /\ path = <<"e2w", "wx2wy">>
  /\ orig = <<"e", ed25519_base_x, ed25519_base_y>>
  /\ ok = 1
  /\ arg = 1 - (prev[3] % 2)
  /\ cur[3] # prev[3]
  /\ f25519_neg(cur[3]) = prev[3]

\* C15: morph25519_e2w called in place (wx = ex, wy = ey) leaves in the
\* two buffers the (wx, wy) that a call with separate output buffers
\* writes, for every Ed25519 point other than (0, 1) and (0, -1).
C15_InPlaceE2W ==
  (path = <<"e2w_inplace">> /\ IsPoint(orig, "e", EdPoints, EdExceptional))
    => <<cur[2], cur[3]>> = morph25519_e2w(orig[2], orig[3])

\* C14: for a clamped scalar e, c25519_smult_xy(c25519_base_x,
\* c25519_base_y, e) is the point e (base_x, base_y) with the right sign of
\* yR: morph25519_w2e of morph25519_m2w of it is e G as ed25519_smult and
\* ed25519_unproject give it.
C14_SmultXY ==
  lstage = "done" =>
    LET w == morph25519_m2w(lxy[1], lxy[2])
    IN  morph25519_w2e(w[1], w[2]) = led

(***************************************************************************)
(* Reference values for the ladder: the multiples of the point of Ed25519  *)
(* that a Montgomery x belongs to, and the x (X : Z) stands for.           *)
(***************************************************************************)
RECURSIVE RefMultipleOf(_, _)
RefMultipleOf(g, j) ==
  IF j = 0 THEN <<0, 1>>
  ELSE LET h == RefMultipleOf(g, j \div 2)
           d == RefEdAdd(h, h)
       IN  IF j % 2 = 1 THEN RefEdAdd(d, g) ELSE d

\* the x-coordinates of the points of Curve25519
MontXs == {q[1] : q \in MontPoints}

\* the points of Ed25519 other than (0, 1), each with its Montgomery
\* x = (1 + ey)/(1 - ey)
EdWithX ==
  {<<((1 + g[2]) * RefInv(1 + P - g[2])) % P, g>> :
     g \in {h \in EdPoints : h[2] # 1}}

\* a point of Ed25519 whose Montgomery x is x, for x in MontXs
EdOfX == [x \in MontXs |-> (CHOOSE r \in EdWithX : r[1] = x)[2]]

\* (X : Z) is the x of the Montgomery image of the Edwards point g, the
\* point at infinity (g = (0, 1)) being (X : 0) with X nonzero
Represents(X, Z, g) ==
  IF g[2] = 1 THEN Z % P = 0 /\ X % P # 0
  ELSE /\ Z % P # 0
       /\ (X * (1 + P - g[2])) % P = (Z * (1 + g[2])) % P

\* m after the iterations made so far: the assumed top bit followed by the
\* bits of e from ScalarBits - 3 down to pi + 1
LadderM ==
  (2 ^ (ScalarBits - 3 - pi))
    + (ModBytes(pe, 2 ^ (ScalarBits - 2)) \div (2 ^ (pi + 1)))

LadderInvariant ==
  LET g  == EdOfX[pq % P]
      gm == RefMultipleOf(g, LadderM)
  IN  /\ Represents(pst[1], pst[2], gm)
      /\ Represents(pst[3], pst[4], RefMultipleOf(g, LadderM - 1))
      /\ (pstage = "done" /\ gm[2] # 1) =>
           pres = ((1 + gm[2]) * RefInv(1 + P - gm[2])) % P
      /\ (pstage = "done" /\ gm[2] = 1) => pres = 0

\* the operations of k iterations
RECURSIVE Rounds(_)
Rounds(k) ==
  IF k = 0 THEN << >>
  ELSE Rounds(k - 1) \o <<"xc_diffadd", "xc_double", "xc_diffadd",
                          "f25519_select", "f25519_select",
                          "f25519_select", "f25519_select">>

\* C16: whatever the base q and the scalar e, projective_ladder makes the
\* same sequence of calls: 254 iterations (ScalarBits - 2 here), i from 253
\* (ScalarBits - 3) down to 0, each one xc_diffadd, one xc_double, one
\* xc_diffadd and four f25519_select in this order, and then ends; the bits
\* of e decide nothing but the selection.
C16_LadderShape ==
  pstage # "idle" =>
    /\ pi \in -1..(ScalarBits - 3)
    /\ pops = Rounds(ScalarBits - 3 - pi)
    /\ pstage = "done" => pi = -1

\* a ladder has ended for a scalar with bits of both values
C16_Witness ==
  /\ pstage = "done"
  /\ pi = -1
  /\ BitOf(pe, 0) = 1
  /\ BitOf(pe, 1) = 0
  /\ Len(pops) = 7 * (ScalarBits - 2)

\* C17: before the first iteration and after every iteration (xm : zm) is
\* x(m q) and (xm1 : zm1) is x((m - 1) q), m being 1 at first and after
\* bits 253..i the top bit followed by these bits of e; c25519_smult
\* returns the canonical x of (2^254 + (e mod 2^254)) q, for every base q
\* of the curve and every e.
C17_LadderInvariant ==
  (pstage # "idle" /\ pq % P \in MontXs) => LadderInvariant

\* C17 as amended: the same for every base q other than x = 0 and every e
\* whose bits 0, 1, 2 are clear, as c25519_prepare leaves them; bits 254
\* and 255 remain free.
C17_LadderInvariantPrepared ==
  (pstage # "idle" /\ pq % P \in MontXs \ {0} /\ pe[1] % 8 = 0)
    => LadderInvariant

\* a ladder on the base point has ended for a scalar whose bits 0, 1, 2
\* are clear and whose two top bits are not those c25519_prepare sets
C17_Witness ==
  /\ pstage = "done"
  /\ pq = c25519_base_x
  /\ pe[1] % 8 = 0
  /\ BitOf(pe, ScalarBits - 1) = 1
  /\ BitOf(pe, ScalarBits - 2) = 0
  /\ pres # 0
  /\ LadderInvariant

\* the z of ecdsa_sign and ecdsa_verify for the digest e: fprime_copy(z, e)
\* and rshift(z, 3)
ShiftedDigest(e) == rshift(fprime_copy(e), 3)

\* the number the array holds
NumOf(x) == ModBytes(x, 2 ^ ScalarBits)

\* C18: in ecdsa_sign and in ecdsa_verify the z of a digest e is
\* floor(E / 8), E being e as a little-endian number: bits are carried from
\* byte i + 1 into byte i, the three top bits of the last byte of z are 0
\* and the three low bits of e[0] are dropped.
C18_DigestFolding ==
  /\ stage \in {"signed", "verified"} =>
       /\ ShiftedDigest(dig) = ToBytes(NumOf(dig) \div 8)
       /\ ShiftedDigest(dig)[FPRIME_SIZE] \div (ByteSize \div 8) = 0
       /\ ShiftedDigest(dig) = ShiftedDigest(ToBytes(NumOf(dig) - (dig[1] % 8)))
  /\ stage = "verified" =>
       /\ ShiftedDigest(vdig) = ToBytes(NumOf(vdig) \div 8)
       /\ ShiftedDigest(vdig)[FPRIME_SIZE] \div (ByteSize \div 8) = 0
       /\ ShiftedDigest(vdig) = ShiftedDigest(ToBytes(NumOf(vdig) - (vdig[1] % 8)))

\* the digest of all ones has been signed and verified: bits were carried
\* over both byte boundaries
C18_Witness ==
  /\ stage = "verified"
  /\ kind = "honest"
  /\ vdig = ToBytes((2 ^ ScalarBits) - 1)
  /\ ShiftedDigest(vdig) = ToBytes((2 ^ (ScalarBits - 3)) - 1)
  /\ vres = 1

\* C19: for every secret d in [1, n - 1], ecdsa_pubkey(d) writes canonical
\* field elements wx, wy < p with wy^2 = wx^3 + a wx + b, and never the
\* pair (A/3, 0) that morph25519_e2w gives for the neutral element.
C19_PubkeyOnCurve ==
  (stage # "idle" /\ ScalarInRange(key)) =>
    /\ pub[1] \in Canon
    /\ pub[2] \in Canon
    /\ OnWei(pub[1], pub[2])
    /\ pub # morph25519_e2w(0, 1)
    /\ pub # <<f25519_delta, 0>>

\* the public key of the largest secret, n - 1, has been derived
C19_Witness ==
  /\ stage = "derived"
  /\ key = ToBytes(ecdsa_n - 1)
  /\ pub \in WeiPoints
  /\ pub \notin WeiExceptional

====
